---- MODULE Spec2Model ----
(***************************************************************************)
(* Model of search.py (mamn2/ChessAI): the move enumerator generateMoves   *)
(* and the three searches minimax, alphabeta and stochastic (with its      *)
(* helper stochasticPath).                                                 *)
(*                                                                         *)
(* The chess library (chess.lib: availableMoves, getPromote, makeMove,     *)
(* evaluate, encode) is not part of search.py.  It is modelled by a finite *)
(* game arena: a board is the sequence of move numbers played from the     *)
(* initial position, every position has MaxBranch legal moves except one   *)
(* optional position without legal moves (dead) and except the positions   *)
(* at the horizon, and the static value of a position is a digit of the    *)
(* number game.                                                            *)
(*                                                                         *)
(* A call either returns a triple (value, moveList, moveTree) or raises;   *)
(* both outcomes are values of the model (Return / Raise).                 *)
(***************************************************************************)
EXTENDS Integers, Sequences, FiniteSets, TLC

VARIABLES
    game,         \* number whose base-3 digits are the static values of the arena
    dead,         \* 0, or 1 + the index of the one position that has no legal move
    side,         \* input: 0 = maximizing player moves next, 1 = minimizing player
    depth,        \* input: search depth
    breadth,      \* input of stochastic: number of sampled paths per first move
    chooser,      \* input of stochastic: number whose binary digits are the chooser's picks
    retMinimax,   \* outcome of minimax(side, board, flags, depth), or NotCalled
    retAlphabeta, \* outcome of alphabeta(side, board, flags, depth), or NotCalled
    retStochastic,\* outcome of stochastic(side, board, flags, depth, breadth, chooser)
    retPath       \* outcome of stochasticPath(side, board, flags, depth, breadth, chooser)

vars == <<game, dead, side, depth, breadth, chooser,
          retMinimax, retAlphabeta, retStochastic, retPath>>

---------------------------------------------------------------------------
(* Bounds of the model *)

\* largest search depth; also the horizon of the arena
MaxDepth == 3
\* number of legal moves of a position that has any
MaxBranch == 2
\* arenas are numbered 0..MaxGame
MaxGame == 2186
\* the position without legal moves is one of the first MaxDead positions
MaxDead == 7
\* largest breadth of stochastic
MaxBreadth == 2
\* choosers are numbered 0..MaxChooser
MaxChooser == 3

---------------------------------------------------------------------------
(* The chess library, as far as search.py uses it *)

\* the promotion value of a move that is not a pawn promotion
None == "None"

\* A board is <<level, index>>: the number of moves played from the root and
\* the position of the board among the boards of its level and the levels
\* above, counted level by level (the root is <<0, 0>>).
board0 == <<0, 0>>
\* the flags that travel with the board
flags0 == << >>

\* i-th base-3 digit of n
RECURSIVE Digit(_, _)
Digit(n, i) == IF i = 0 THEN n % 3 ELSE Digit(n \div 3, i - 1)

\* chess.lib.heuristics.evaluate: the static value of a board, in -1..1
evaluate(board) == Digit(game, board[2] % 7) - 1

\* number of legal moves of the side to move
NumMoves(board) ==
    IF board[1] >= MaxDepth \/ dead = board[2] + 1 THEN 0 ELSE MaxBranch

\* board[side]: the pieces of the side to move, each <<x, y, kind>>;
\* every piece has two destinations, the last one possibly only one
Pieces(side_, board) == [p \in 1..((NumMoves(board) + 1) \div 2) |-> <<p, 2, "p">>]

\* chess.lib.availableMoves: the destinations of a piece, in a fixed order
availableMoves(side_, board, piece, flags) ==
    IF 2 * piece[1] <= NumMoves(board)
    THEN << <<piece[1], 3>>, <<piece[1], 4>> >>
    ELSE << <<piece[1], 3>> >>

\* chess.lib.getPromote: the promotion piece when the move reaches the last rank
getPromote(side_, board, fro, to) == IF to[2] = 8 THEN "q" ELSE None

\* chess.lib.core.makeMove: the position after the move; the side alternates
makeMove(side_, board, fro, to, flags, promote) ==
    <<1 - side_,
      <<board[1] + 1, board[2] * MaxBranch + 2 * (fro[1] - 1) + (to[2] - 2)>>,
      flags>>

\* chess.lib.utils.encode: the key of a move in the audit tree
encode(fro, to, promote) == <<fro[1], 9 - fro[2], to[1], 9 - to[2], promote>>

---------------------------------------------------------------------------
(* Values shared by the searches *)

Max(a, b) == IF a >= b THEN a ELSE b
Min(a, b) == IF a <= b THEN a ELSE b

\* math.inf and -math.inf, the default window of alphabeta.  They are only
\* compared, never added to; any number above every value will do.
PosInf == 2147483647
NegInf == -2147483647

\* The initial "best so far" of minimax and alphabeta.  The source has
\* 9999999999 and -9999999999, which do not fit the 32-bit integers of the
\* model checker; the model keeps their order (beyond every static value,
\* inside the infinite window) with nine digits instead of ten.
PosSentinel == 999999999
NegSentinel == -999999999

\* the initial bestAvgValue of stochastic
BestAvgInit == 99999

\* the empty dict {}
EmptyTree == [k \in {} |-> k]

\* the two ways a call ends: return (value, moveList, moveTree), or raise
Return(value, moveList, moveTree) ==
    [ok |-> TRUE, err |-> "", value |-> value, moveList |-> moveList, moveTree |-> moveTree]
Raise(err) ==
    [ok |-> FALSE, err |-> err, value |-> 0, moveList |-> << >>, moveTree |-> EmptyTree]

\* a result variable before its call
NotCalled == Raise("NotCalled")
Called(ret) == ret.err # "NotCalled"

---------------------------------------------------------------------------
(* generateMoves *)

\* the moves of one piece: [fro, to, promote] for every destination
MovesOfPiece(side_, board, flags, piece) ==
    LET fro == <<piece[1], piece[2]>>
        tos == availableMoves(side_, board, piece, flags)
    IN  [j \in 1..Len(tos) |-> <<fro, tos[j], getPromote(side_, board, fro, tos[j])>>]

RECURSIVE MovesOfPieces(_, _, _, _)
MovesOfPieces(side_, board, flags, pieces) ==
    IF pieces = << >> THEN << >>
    ELSE MovesOfPiece(side_, board, flags, Head(pieces))
            \o MovesOfPieces(side_, board, flags, Tail(pieces))

\* all legal moves of the side to move, piece by piece, in enumeration order
generateMoves(side_, board, flags) ==
    MovesOfPieces(side_, board, flags, Pieces(side_, board))

---------------------------------------------------------------------------
(* minimax *)

\* a maximizer that also replaces its sequence on a tie
MaxImprovesOrTies(maxVal, curMax) == maxVal >= curMax
\* minimax line 80: the maximizer replaces its sequence on strict improvement
MaxImproves(maxVal, curMax) == maxVal > curMax
\* minimax line 99: the minimizer replaces its sequence on strict improvement
MinImproves(minVal, curMin) == minVal < curMin
\* a record that replaces the tree instead of adding to it
MinimaxRecordOnlyLast(movesTree, move, curMoveTree) ==
    (encode(move[1], move[2], move[3]) :> curMoveTree)
\* minimax lines 77 and 96: movesTree[encode(*move)] = curMoveTree
MinimaxRecord(movesTree, move, curMoveTree) ==
    (encode(move[1], move[2], move[3]) :> curMoveTree) @@ movesTree

RECURSIVE minimax(_, _, _, _)
RECURSIVE MinimaxMaxLoop(_, _, _, _, _, _, _)
RECURSIVE MinimaxMinLoop(_, _, _, _, _, _, _)

\* the maximizer's loop from move i on.  acc.bound tells whether movesList
\* has been assigned: line 70 initialises moveList, the loop assigns and
\* line 83 returns movesList.
MinimaxMaxLoop(side_, board, flags, depth_, possibleMoves, i, acc) ==
    IF i > Len(possibleMoves)
    THEN IF acc.bound THEN Return(acc.val, acc.list, acc.tree)
         ELSE Raise("UnboundLocalError")
    ELSE LET move == possibleMoves[i]
             new  == makeMove(side_, board, move[1], move[2], flags, move[3])
             cur  == minimax(new[1], new[2], new[3], depth_ - 1)
         IN  IF ~cur.ok THEN cur
             ELSE LET maxVal == Max(cur.value, acc.val)
                      better == MaxImproves(maxVal, acc.val)
                  IN  MinimaxMaxLoop(side_, board, flags, depth_, possibleMoves, i + 1,
                          [val   |-> maxVal,
                           bound |-> acc.bound \/ better,
                           list  |-> IF better THEN <<move>> \o cur.moveList ELSE acc.list,
                           tree  |-> MinimaxRecord(acc.tree, move, cur.moveTree)])

\* the minimizer's loop from move i on; moveList starts as [] (line 90)
MinimaxMinLoop(side_, board, flags, depth_, possibleMoves, i, acc) ==
    IF i > Len(possibleMoves)
    THEN Return(acc.val, acc.list, acc.tree)
    ELSE LET move == possibleMoves[i]
             new  == makeMove(side_, board, move[1], move[2], flags, move[3])
             cur  == minimax(new[1], new[2], new[3], depth_ - 1)
         IN  IF ~cur.ok THEN cur
             ELSE LET minVal == Min(acc.val, cur.value)
                      better == MinImproves(minVal, acc.val)
                  IN  MinimaxMinLoop(side_, board, flags, depth_, possibleMoves, i + 1,
                          [val   |-> minVal,
                           bound |-> TRUE,
                           list  |-> IF better THEN <<move>> \o cur.moveList ELSE acc.list,
                           tree  |-> MinimaxRecord(acc.tree, move, cur.moveTree)])

minimax(side_, board, flags, depth_) ==
    IF depth_ = 0
    THEN Return(evaluate(board), << >>, EmptyTree)
    ELSE LET possibleMoves == generateMoves(side_, board, flags)
         IN  IF side_ = 0
             THEN MinimaxMaxLoop(side_, board, flags, depth_, possibleMoves, 1,
                      [val |-> NegSentinel, bound |-> FALSE, list |-> << >>, tree |-> EmptyTree])
             ELSE MinimaxMinLoop(side_, board, flags, depth_, possibleMoves, 1,
                      [val |-> PosSentinel, bound |-> TRUE, list |-> << >>, tree |-> EmptyTree])

---------------------------------------------------------------------------
(* alphabeta *)

\* a maximizer that also replaces its sequence on a tie
ABMaxImprovesOrTies(maxVal, curMax) == maxVal >= curMax
\* alphabeta line 139: the maximizer replaces its sequence on strict improvement
ABMaxImproves(maxVal, curMax) == maxVal > curMax
\* alphabeta line 163: the minimizer replaces its sequence on strict improvement
ABMinImproves(minVal, curMin) == minVal < curMin
\* alphabeta line 143: alpha = max(curVal, alpha)
NewAlpha(curVal, alpha) == Max(curVal, alpha)
\* alphabeta line 167: beta = min(curVal, beta)
NewBeta(curVal, beta) == Min(curVal, beta)
\* a test that lets a window of equal bounds pass
CutoffStrict(alpha, beta) == alpha > beta
\* the test with the comparison turned round
CutoffReversed(alpha, beta) == alpha <= beta
\* alphabeta lines 144 and 168: the test that ends the loop
Cutoff(alpha, beta) == alpha >= beta
\* alphabeta lines 136 and 160: movesTree[encode(*move)] = curMoveTree
ABRecord(movesTree, move, curMoveTree) ==
    (encode(move[1], move[2], move[3]) :> curMoveTree) @@ movesTree

RECURSIVE alphabeta(_, _, _, _, _, _)
RECURSIVE ABMaxLoop(_, _, _, _, _, _, _, _, _)
RECURSIVE ABMinLoop(_, _, _, _, _, _, _, _, _)

\* what the maximizer returns at line 147: movesList, assigned only in the loop
ABMaxReturn(acc) ==
    IF acc.bound THEN Return(acc.val, acc.list, acc.tree) ELSE Raise("UnboundLocalError")

\* the maximizer's loop from move i on, with the current window
ABMaxLoop(side_, board, flags, depth_, possibleMoves, i, alpha, beta, acc) ==
    IF i > Len(possibleMoves)
    THEN ABMaxReturn(acc)
    ELSE LET move == possibleMoves[i]
             new  == makeMove(side_, board, move[1], move[2], flags, move[3])
             cur  == alphabeta(new[1], new[2], new[3], depth_ - 1, alpha, beta)
         IN  IF ~cur.ok THEN cur
             ELSE LET maxVal == Max(cur.value, acc.val)
                      better == ABMaxImproves(maxVal, acc.val)
                      acc2   == [val   |-> maxVal,
                                 bound |-> acc.bound \/ better,
                                 list  |-> IF better THEN <<move>> \o cur.moveList
                                           ELSE acc.list,
                                 tree  |-> ABRecord(acc.tree, move, cur.moveTree)]
                      alpha2 == NewAlpha(cur.value, alpha)
                  IN  IF Cutoff(alpha2, beta)
                      THEN ABMaxReturn(acc2)
                      ELSE ABMaxLoop(side_, board, flags, depth_, possibleMoves, i + 1,
                                     alpha2, beta, acc2)

\* the minimizer's loop from move i on, with the current window
ABMinLoop(side_, board, flags, depth_, possibleMoves, i, alpha, beta, acc) ==
    IF i > Len(possibleMoves)
    THEN Return(acc.val, acc.list, acc.tree)
    ELSE LET move == possibleMoves[i]
             new  == makeMove(side_, board, move[1], move[2], flags, move[3])
             cur  == alphabeta(new[1], new[2], new[3], depth_ - 1, alpha, beta)
         IN  IF ~cur.ok THEN cur
             ELSE LET minVal == Min(acc.val, cur.value)
                      better == ABMinImproves(minVal, acc.val)
                      acc2   == [val   |-> minVal,
                                 bound |-> TRUE,
                                 list  |-> IF better THEN <<move>> \o cur.moveList
                                           ELSE acc.list,
                                 tree  |-> ABRecord(acc.tree, move, cur.moveTree)]
                      beta2  == NewBeta(cur.value, beta)
                  IN  IF Cutoff(alpha, beta2)
                      THEN Return(acc2.val, acc2.list, acc2.tree)
                      ELSE ABMinLoop(side_, board, flags, depth_, possibleMoves, i + 1,
                                     alpha, beta2, acc2)

alphabeta(side_, board, flags, depth_, alpha, beta) ==
    IF depth_ = 0
    THEN Return(evaluate(board), << >>, EmptyTree)
    ELSE LET possibleMoves == generateMoves(side_, board, flags)
         IN  IF side_ = 0
             THEN ABMaxLoop(side_, board, flags, depth_, possibleMoves, 1, alpha, beta,
                      [val |-> NegSentinel, bound |-> FALSE, list |-> << >>, tree |-> EmptyTree])
             ELSE ABMinLoop(side_, board, flags, depth_, possibleMoves, 1, alpha, beta,
                      [val |-> PosSentinel, bound |-> TRUE, list |-> << >>, tree |-> EmptyTree])

---------------------------------------------------------------------------
(* stochasticPath and stochastic *)

\* The chooser is a callable that may keep state (random.choice does): its
\* k-th call (k = 0, 1, ...) picks by the k-th binary digit of chooser_, the
\* digits repeating with period 3.  On an empty list there is nothing to
\* pick: random.choice raises IndexError.  A descent that starts below
\* depth 0 never meets the base case; in this finite arena it ends at the
\* horizon with the chooser's error (in an arena without end Python ends it
\* with RecursionError): either way the call raises.
Pick(chooser_, k) == (chooser_ \div (2 ^ (k % 3))) % 2
Choose(chooser_, k, moves) == moves[(Pick(chooser_, k) % Len(moves)) + 1]

RECURSIVE stochasticPath(_, _, _, _, _, _, _)
\* k counts the calls made to the chooser before this call
stochasticPath(side_, board, flags, depth_, breadth_, chooser_, k) ==
    IF depth_ = 0
    THEN Return(evaluate(board), << >>, EmptyTree)
    ELSE LET possibleMoves == generateMoves(side_, board, flags)
         IN  IF Len(possibleMoves) = 0 THEN Raise("IndexError")
             ELSE LET thisMove == Choose(chooser_, k, possibleMoves)
                      new == makeMove(side_, board, thisMove[1], thisMove[2], flags,
                                      thisMove[3])
                      sub == stochasticPath(new[1], new[2], new[3], depth_ - 1,
                                            breadth_, chooser_, k + 1)
                  IN  IF ~sub.ok THEN sub
                      ELSE Return(sub.value,
                                  <<thisMove>> \o sub.moveList,
                                  (encode(thisMove[1], thisMove[2], thisMove[3])
                                       :> sub.moveTree) @@ EmptyTree)

\* An average float(totalVal) / float(breadth) is the pair <<totalVal, breadth>>;
\* averages are compared as fractions with positive denominators.
Avg(totalVal, breadth_) == <<totalVal, breadth_>>
AvgLess(a, b) == a[1] * b[2] < b[1] * a[2]
AvgEq(a, b) == a[1] * b[2] = b[1] * a[2]

\* a total that keeps only the last sample
AccumulateLastOnly(totalVal, curVal) == curVal
\* stochastic line 217: totalVal += curVal
Accumulate(totalVal, curVal) == totalVal + curVal

\* stochastic line 219: a first move becomes the best one
StochImproves(avgVal, bestAvgValue) == AvgLess(avgVal, bestAvgValue)

RECURSIVE Samples(_, _, _, _, _, _, _, _)
\* lines 213-217: samples i..breadth after a first move.  s.totalVal, s.moveList
\* and s.tree (movesTree[encode(*move)]) accumulate; s.k counts chooser calls.
Samples(side_, board, flags, depth_, breadth_, chooser_, i, s) ==
    IF i > breadth_ THEN s
    ELSE LET path == stochasticPath(side_, board, flags, depth_ - 1, breadth_, chooser_, s.k)
         IN  IF ~path.ok THEN [s EXCEPT !.ok = FALSE, !.err = path.err]
             ELSE Samples(side_, board, flags, depth_, breadth_, chooser_, i + 1,
                      [ok       |-> TRUE,
                       err      |-> "",
                       totalVal |-> Accumulate(s.totalVal, path.value),
                       moveList |-> path.moveList,
                       tree     |-> path.moveTree @@ s.tree,
                       k        |-> s.k + Len(path.moveList)])

RECURSIVE StochasticLoop(_, _, _, _, _, _, _, _, _)
\* lines 208-221 from move i on.  acc.bound tells whether bestMove has been
\* assigned; depth_ is the depth of stochastic itself.
StochasticLoop(side_, board, flags, depth_, breadth_, chooser_, possibleMoves, i, acc) ==
    IF i > Len(possibleMoves)
    THEN IF acc.bound THEN Return(acc.best, acc.bestMove, acc.tree)
         ELSE Raise("UnboundLocalError")
    ELSE LET move  == possibleMoves[i]
             first == makeMove(side_, board, move[1], move[2], flags, move[3])
             s     == Samples(first[1], first[2], first[3], depth_, breadth_, chooser_, 1,
                              [ok |-> TRUE, err |-> "", totalVal |-> 0, moveList |-> << >>,
                               tree |-> EmptyTree, k |-> acc.k])
         IN  IF ~s.ok THEN Raise(s.err)
             ELSE LET avgVal == Avg(s.totalVal, breadth_)
                      better == StochImproves(avgVal, acc.best)
                  IN  StochasticLoop(side_, board, flags, depth_, breadth_, chooser_,
                          possibleMoves, i + 1,
                          [best     |-> IF better THEN avgVal ELSE acc.best,
                           bound    |-> acc.bound \/ better,
                           bestMove |-> IF better THEN <<move>> \o s.moveList
                                        ELSE acc.bestMove,
                           tree     |-> (encode(move[1], move[2], move[3]) :> s.tree)
                                            @@ acc.tree,
                           k        |-> s.k])

stochastic(side_, board, flags, depth_, breadth_, chooser_) ==
    StochasticLoop(side_, board, flags, depth_, breadth_, chooser_,
        generateMoves(side_, board, flags), 1,
        [best |-> Avg(BestAvgInit, 1), bound |-> FALSE, bestMove |-> << >>,
         tree |-> EmptyTree, k |-> 0])

---------------------------------------------------------------------------
(* The state machine: inputs are drawn in Init, every action is one call *)

NoCalls ==
    /\ retMinimax = NotCalled
    /\ retAlphabeta = NotCalled
    /\ retStochastic = NotCalled
    /\ retPath = NotCalled

\* n + 1 arenas that differ in the static values of positions on both sides
\* of the root (the two lowest digits stay 0)
Arenas(n) == {9 * g : g \in 0..n}

\* inputs of minimax and alphabeta: every arena when each position (before
\* the horizon) has legal moves, fewer when one position has none
Init ==
    /\ \/ dead = 0 /\ game \in 0..MaxGame
       \/ dead \in 1..MaxDead /\ game \in Arenas(MaxGame \div 27)
    /\ side \in {0, 1}
    /\ depth \in 0..MaxDepth
    /\ breadth = 1
    /\ chooser = 0
    /\ NoCalls

\* inputs of stochastic and stochasticPath
InitStochastic ==
    /\ game \in Arenas(MaxGame \div 27)
    /\ dead \in 0..MaxDead
    /\ side \in {0, 1}
    /\ depth \in 0..MaxDepth
    /\ breadth \in 1..MaxBreadth
    /\ chooser \in 0..MaxChooser
    /\ NoCalls

\* inputs on which the three searches are called
InitAll ==
    /\ \/ dead = 0 /\ game \in Arenas(MaxGame \div 27)
       \/ dead \in 1..MaxDead /\ game \in Arenas(MaxGame \div 243)
    /\ side \in {0, 1}
    /\ depth \in 0..MaxDepth
    /\ breadth \in 1..MaxBreadth
    /\ chooser \in 0..MaxChooser
    /\ NoCalls

CallMinimax ==
    /\ ~Called(retMinimax)
    /\ retMinimax' = minimax(side, board0, flags0, depth)
    /\ UNCHANGED <<game, dead, side, depth, breadth, chooser,
                   retAlphabeta, retStochastic, retPath>>

CallAlphabeta ==
    /\ ~Called(retAlphabeta)
    /\ retAlphabeta' = alphabeta(side, board0, flags0, depth, NegInf, PosInf)
    /\ UNCHANGED <<game, dead, side, depth, breadth, chooser,
                   retMinimax, retStochastic, retPath>>

CallStochastic ==
    /\ ~Called(retStochastic)
    /\ retStochastic' = stochastic(side, board0, flags0, depth, breadth, chooser)
    /\ UNCHANGED <<game, dead, side, depth, breadth, chooser,
                   retMinimax, retAlphabeta, retPath>>

CallStochasticPath ==
    /\ ~Called(retPath)
    /\ retPath' = stochasticPath(side, board0, flags0, depth, breadth, chooser, 0)
    /\ UNCHANGED <<game, dead, side, depth, breadth, chooser,
                   retMinimax, retAlphabeta, retStochastic>>

\* the deterministic searches on the larger set of arenas
Next == CallMinimax \/ CallAlphabeta
Spec == Init /\ [][Next]_vars

\* the sampling search with every breadth and chooser
NextStochastic == CallStochastic \/ CallStochasticPath
SpecStochastic == InitStochastic /\ [][NextStochastic]_vars

\* the three searches on the same inputs
NextAll == CallMinimax \/ CallAlphabeta \/ CallStochastic
SpecAll == InitAll /\ [][NextAll]_vars

---------------------------------------------------------------------------
(* Vocabulary of the properties *)

\* the legal moves at the root
RootMoves == generateMoves(side, board0, flags0)

\* the position reached after the i-th root move, as <<side, board, flags>>
AfterRootMove(i) ==
    makeMove(side, board0, RootMoves[i][1], RootMoves[i][2], flags0, RootMoves[i][3])

\* the board reached by playing moveList from board
RECURSIVE ApplyMoves(_, _, _, _)
ApplyMoves(side_, board, flags, moveList) ==
    IF moveList = << >> THEN board
    ELSE LET new == makeMove(side_, board, moveList[1][1], moveList[1][2], flags,
                             moveList[1][3])
         IN  ApplyMoves(new[1], new[2], new[3], Tail(moveList))

\* the triple the base case returns for the root
StaticTriple == Return(evaluate(board0), << >>, EmptyTree)

\* every key of tree a is a key of tree b, and so on below every key of a
RECURSIVE TreeIncluded(_, _)
TreeIncluded(a, b) ==
    /\ DOMAIN a \subseteq DOMAIN b
    /\ \A k \in DOMAIN a : TreeIncluded(a[k], b[k])

\* some node of the tree has fewer keys than n
RECURSIVE SomeNodeCut(_, _, _)
SomeNodeCut(tree, n, levels) ==
    /\ levels > 0
    /\ \/ Cardinality(DOMAIN tree) < n
       \/ \E k \in DOMAIN tree : SomeNodeCut(tree[k], n, levels - 1)

\* the exhaustive value of the position after the i-th root move
ChildValue(i) ==
    minimax(AfterRootMove(i)[1], AfterRootMove(i)[2], AfterRootMove(i)[3], depth - 1).value

\* index of the earliest best of the values vals for the side to move:
\* the largest for the maximizer, the smallest for the minimizer
EarliestBestOf(vals) ==
    CHOOSE i \in 1..Len(vals) :
        /\ \A j \in 1..Len(vals) : IF side = 0 THEN vals[j] <= vals[i] ELSE vals[j] >= vals[i]
        /\ \A j \in 1..(i - 1) : vals[j] # vals[i]

\* the earliest root move whose child has the best exhaustive value
EarliestBest == EarliestBestOf([i \in 1..Len(RootMoves) |-> ChildValue(i)])

\* value of the j-th path sampled after the i-th root move: the sample is
\* preceded by (i-1)*breadth + (j-1) samples of depth-1 chooser calls each
SampleValue(i, j) ==
    stochasticPath(AfterRootMove(i)[1], AfterRootMove(i)[2], AfterRootMove(i)[3],
                   depth - 1, breadth, chooser,
                   ((i - 1) * breadth + (j - 1)) * (depth - 1)).value

RECURSIVE SampleSum(_, _)
SampleSum(i, j) == IF j = 0 THEN 0 ELSE SampleSum(i, j - 1) + SampleValue(i, j)

\* the mean of the breadth samples after the i-th root move
SampleMean(i) == <<SampleSum(i, breadth), breadth>>

\* index of the earliest lowest of the means
EarliestLowestOf(means) ==
    CHOOSE i \in 1..Len(means) :
        /\ \A j \in 1..Len(means) : ~AvgLess(means[j], means[i])
        /\ \A j \in 1..(i - 1) : AvgLess(means[i], means[j])

\* the earliest root move with the lowest mean
EarliestLowestMean == EarliestLowestOf([i \in 1..Len(RootMoves) |-> SampleMean(i)])

---------------------------------------------------------------------------
(* C1 *)

\* C1: whenever minimax and alphabeta (default window) both return on the
\* same side, board, flags and depth, they return the same value.
C1_SameValue ==
    (retMinimax.ok /\ retAlphabeta.ok) => retAlphabeta.value = retMinimax.value

\* both returned at depth 3 and alphabeta pruned something
C1_Witness ==
    /\ retMinimax.ok /\ retAlphabeta.ok
    /\ depth >= 3
    /\ retAlphabeta.moveTree # retMinimax.moveTree
    /\ retAlphabeta.value = retMinimax.value

---------------------------------------------------------------------------
(* C2 *)

\* C2: the move sequence alphabeta returns with its default window is the
\* move sequence minimax returns on the same inputs, move for move.
C2_SameSequence ==
    (retMinimax.ok /\ retAlphabeta.ok) => retAlphabeta.moveList = retMinimax.moveList

\* the maximizer's second child, searched with the window its first child
\* leaves, returned a bound that is not its exhaustive value, and a sibling
\* was skipped somewhere; the sequences still agree
C2_Witness ==
    /\ retMinimax.ok /\ retAlphabeta.ok
    /\ side = 0 /\ depth >= 3 /\ Len(RootMoves) >= 2
    /\ alphabeta(AfterRootMove(2)[1], AfterRootMove(2)[2], AfterRootMove(2)[3],
                 depth - 1, ChildValue(1), PosInf).value # ChildValue(2)
    /\ retAlphabeta.moveTree # retMinimax.moveTree
    /\ Len(retAlphabeta.moveList) = depth
    /\ retAlphabeta.moveList = retMinimax.moveList

---------------------------------------------------------------------------
(* C3 *)

\* C3: a call of minimax, alphabeta or stochastic with depth > 0 on a
\* position without legal moves returns (evaluate(board), [], {}).
C3_NoMovesReturnsStatic ==
    (depth > 0 /\ Len(RootMoves) = 0) =>
        /\ Called(retMinimax) => retMinimax = StaticTriple
        /\ Called(retAlphabeta) => retAlphabeta = StaticTriple
        /\ Called(retStochastic) => retStochastic = StaticTriple

---------------------------------------------------------------------------
(* C4 *)

\* C4: with depth = 0 each of minimax, alphabeta, stochastic and
\* stochasticPath returns exactly (evaluate(board), [], {}).
C4_DepthZeroIdentity ==
    depth = 0 =>
        /\ Called(retMinimax) => retMinimax = StaticTriple
        /\ Called(retAlphabeta) => retAlphabeta = StaticTriple
        /\ Called(retStochastic) => retStochastic = StaticTriple
        /\ Called(retPath) => retPath = StaticTriple

---------------------------------------------------------------------------
(* C5 *)

\* C5: on well-formed inputs (side 0 or 1, depth >= 0, breadth >= 1, finitely
\* many legal moves, a chooser that picks from non-empty lists) minimax,
\* alphabeta and stochastic return a triple; no call ends in an error.
C5_AlwaysReturns ==
    /\ Called(retMinimax) => retMinimax.ok
    /\ Called(retAlphabeta) => retAlphabeta.ok
    /\ Called(retStochastic) => retStochastic.ok

---------------------------------------------------------------------------
(* C6 *)

\* C6: the value minimax (and alphabeta with its default window) returns is
\* evaluate of the board reached by playing the returned move sequence from
\* the input board, also when positions without legal moves are searched.
C6_ValueOfLine ==
    /\ retMinimax.ok =>
           retMinimax.value = evaluate(ApplyMoves(side, board0, flags0, retMinimax.moveList))
    /\ retAlphabeta.ok =>
           retAlphabeta.value = evaluate(ApplyMoves(side, board0, flags0, retAlphabeta.moveList))

---------------------------------------------------------------------------
(* C7 *)

---------------------------------------------------------------------------
(* C8 *)

\* C8: for depth >= 1, breadth >= 1 and at least one legal first move, the
\* value stochastic returns is the lowest, over the legal first moves, of the
\* means of the breadth values sampled after each, and the returned sequence
\* starts with a move that attains it, whichever side is to move.
C8_LowestMean ==
    (retStochastic.ok /\ depth >= 1 /\ breadth >= 1 /\ Len(RootMoves) >= 1) =>
        LET means == [i \in 1..Len(RootMoves) |-> SampleMean(i)]
        IN  \E i \in 1..Len(RootMoves) :
                /\ retStochastic.moveList[1] = RootMoves[i]
                /\ AvgEq(retStochastic.value, means[i])
                /\ \A j \in 1..Len(RootMoves) : ~AvgLess(means[j], means[i])

\* the maximizer is to move, two samples of one first move differ, and the
\* returned first move has a strictly lower mean than another first move
C8_Witness ==
    /\ retStochastic.ok
    /\ side = 0 /\ depth >= 2 /\ breadth >= 2
    /\ \E i \in 1..Len(RootMoves) : SampleValue(i, 1) # SampleValue(i, 2)
    /\ \E i, j \in 1..Len(RootMoves) :
           /\ retStochastic.moveList[1] = RootMoves[i]
           /\ AvgEq(retStochastic.value, SampleMean(i))
           /\ AvgLess(SampleMean(i), SampleMean(j))

---------------------------------------------------------------------------
(* C9 *)

\* C9: every key of alphabeta's audit tree is a key of minimax's audit tree
\* at the same place, at the root and below every key alphabeta recorded.
C9_TreeIncluded ==
    (retMinimax.ok /\ retAlphabeta.ok) =>
        TreeIncluded(retAlphabeta.moveTree, retMinimax.moveTree)

\* alphabeta recorded strictly less than minimax at depth 3
C9_Witness ==
    /\ retMinimax.ok /\ retAlphabeta.ok
    /\ depth >= 3
    /\ TreeIncluded(retAlphabeta.moveTree, retMinimax.moveTree)
    /\ ~TreeIncluded(retMinimax.moveTree, retAlphabeta.moveTree)

---------------------------------------------------------------------------
(* C10 *)

RECURSIVE PrefixAtNode(_, _, _, _, _, _, _)
RECURSIVE PrefixFrom(_, _, _, _, _, _, _, _, _, _)

\* tree is what a node searched with the window (alpha, beta) records: the
\* keys of the moves from the first one up to the one after which
\* alpha >= beta (all moves if that never happens), each with the tree of
\* its child searched with the window in force when it was reached
PrefixFrom(side_, board, flags, depth_, moves, i, alpha, beta, tree, keys) ==
    IF i > Len(moves) THEN DOMAIN tree = keys
    ELSE LET move == moves[i]
             new  == makeMove(side_, board, move[1], move[2], flags, move[3])
             key  == encode(move[1], move[2], move[3])
             val  == alphabeta(new[1], new[2], new[3], depth_ - 1, alpha, beta).value
             a2   == IF side_ = 0 THEN (IF val > alpha THEN val ELSE alpha) ELSE alpha
             b2   == IF side_ = 0 THEN beta ELSE (IF val < beta THEN val ELSE beta)
         IN  /\ key \in DOMAIN tree
             /\ PrefixAtNode(new[1], new[2], new[3], depth_ - 1, alpha, beta, tree[key])
             /\ IF a2 >= b2
                THEN DOMAIN tree = keys \cup {key}
                ELSE PrefixFrom(side_, board, flags, depth_, moves, i + 1, a2, b2, tree,
                                keys \cup {key})

PrefixAtNode(side_, board, flags, depth_, alpha, beta, tree) ==
    IF depth_ = 0 THEN tree = EmptyTree
    ELSE PrefixFrom(side_, board, flags, depth_, generateMoves(side_, board, flags), 1,
                    alpha, beta, tree, {})

\* C10: at every node alphabeta expands, the children are taken in
\* enumeration order, alpha (maximizer) or beta (minimizer) is updated after
\* each child, and the first child after which alpha >= beta is the last one
\* recorded: the node's keys are that prefix of the legal moves.
C10_PrefixUpToCutoff ==
    retAlphabeta.ok =>
        PrefixAtNode(side, board0, flags0, depth, NegInf, PosInf, retAlphabeta.moveTree)

\* a search of depth 3 in which some node skipped a sibling
C10_Witness ==
    /\ retAlphabeta.ok
    /\ dead = 0
    /\ depth >= 3
    /\ SomeNodeCut(retAlphabeta.moveTree, MaxBranch, depth)
    /\ PrefixAtNode(side, board0, flags0, depth, NegInf, PosInf, retAlphabeta.moveTree)

====
